---- MODULE Spec2Model ----
(***************************************************************************)
(* Model of src/telegram_bot.py: the per-user state store user_states and  *)
(* the three handlers that touch it (cancel, handle_image,                 *)
(* handle_question).  Every handler is a coroutine; it runs atomically     *)
(* from one await to the next, and while it is suspended on an await the   *)
(* event loop may run any other handler, of the same user or of another   *)
(* (the scheduling model of concurrent update processing: handlers         *)
(* interleave at their suspension points and nowhere else).  Each await on *)
(* the chat platform or on a provider either returns or raises.            *)
(* A coroutine's record holds its locals and, as history, what it has sent *)
(* (out), what was delivered, and the provider calls it has issued.        *)
(***************************************************************************)
EXTENDS Integers, Sequences, FiniteSets, TLC

\* ---------------------------------------------------------------- bounds
NumUsers == 2
NumImages == 2
MaxTasks == 2

Users == 1..NumUsers
Images == 1..NumImages
Slots == 1..MaxTasks

\* The key user_id is not in user_states.
Absent == 0

\* user_states: the dict of line 30, as user_id -> image_data (Absent: no key).
\* tasks: the handler coroutines, one per slot.
\* received: history, the bytes handle_image last stored for each user.
\* fmt: one application of format_math_text to a text, and a second one to
\* its result (stage "off" while the handlers are modelled).
VARIABLES user_states, tasks, received, fmt

vars == <<user_states, tasks, received, fmt>>

NoText == [stage |-> "off", text |-> <<>>, once |-> <<>>, twice |-> <<>>]

\* ------------------------------------------------------- the state store
\* Variant: the pending-image check of line 270 left out.
HasPendingAlways(us, u) == TRUE

HasPending(us, u) == us[u] # Absent

\* Variant: a store that keeps the image already pending.
PutImageKeepFirst(us, u, img) == IF us[u] = Absent THEN [us EXCEPT ![u] = img] ELSE us

PutImage(us, u, img) == [us EXCEPT ![u] = img]

\* Variant: the del left out.
ClearStateNoop(us, u) == us

\* Variant: the whole dict is cleared instead of the user's key.
ClearStateAll(us, u) == [v \in Users |-> Absent]

ClearState(us, u) == [us EXCEPT ![u] = Absent]

\* ------------------------------------------------------------ coroutines
Last(s) == s[Len(s)]

IdleTask ==
    [kind |-> "idle", user |-> 0, pc |-> "done", image_data |-> Absent,
     error |-> "none", crashed |-> FALSE, out |-> <<>>, delivered |-> <<>>,
     calls |-> <<>>, checked |-> Absent, during |-> Absent, cancelled |-> FALSE]

NewTask(kind, u) == [IdleTask EXCEPT !.kind = kind, !.user = u, !.pc = "start"]

\* A slot is free when no coroutine is suspended in it.
Free(t) == tasks[t].pc = "done"

\* await update.message.reply_text(msg) / processing_message.edit_text(msg):
\* the request is issued and the coroutine is suspended at pc.
Send(task, msg, pc) == [task EXCEPT !.out = Append(@, msg), !.pc = pc]

\* The awaited send returned.
Delivered(task) == [task EXCEPT !.delivered = Append(@, Last(task.out))]

\* The coroutine returns: its frame (locals, what it sent and called) is gone.
Finish(task) == [IdleTask EXCEPT !.kind = task.kind, !.user = task.user]

\* An exception leaves the coroutine.
Unhandled(task) == [Finish(task) EXCEPT !.crashed = TRUE]

\* await analyze_image_with_openai(image_data, question)
CallAnalyze(task, img) ==
    [task EXCEPT !.image_data = img,
                 !.calls = Append(@, [api |-> "analyze", image |-> img]),
                 !.pc = "q_analyze"]

\* await translate_with_claude(english_answer)
CallTranslate(task) ==
    [task EXCEPT !.calls = Append(@, [api |-> "translate", image |-> Absent]),
                 !.pc = "q_translate"]

ErrorNotice == "error_processing_request"

\* except Exception as e: the one notice of handle_question, whatever failed.
Except(task, exc) == Send([task EXCEPT !.error = exc], ErrorNotice, "q_error")

\* A question handler that passed the pending-image check and has not returned.
InFlight(task, u) ==
    /\ task.kind = "question"
    /\ task.user = u
    /\ task.pc \notin {"done", "q_guidance"}

\* History of the in-flight questions of user u, kept when another handler
\* stores an image for u or cancels u's state.
NoteStore(ts, t, u, img) ==
    [s \in Slots |->
        IF s # t /\ InFlight(ts[s], u) THEN [ts[s] EXCEPT !.during = img] ELSE ts[s]]

NoteCancel(ts, t, u) ==
    [s \in Slots |->
        IF s # t /\ InFlight(ts[s], u)
        THEN [ts[s] EXCEPT !.during = Absent, !.cancelled = TRUE]
        ELSE ts[s]]

\* ------------------------------------------------------------------ Init
Init ==
    /\ user_states = [u \in Users |-> Absent]
    /\ tasks = [t \in Slots |-> IdleTask]
    /\ received = [u \in Users |-> Absent]
    /\ fmt = NoText

\* ---------------------------------------------------------------- cancel
CancelEvent(t, u) ==
    /\ Free(t)
    /\ UNCHANGED fmt
    /\ UNCHANGED received
    /\ IF HasPending(user_states, u)
       THEN /\ user_states' = ClearState(user_states, u)
            /\ tasks' = [NoteCancel(tasks, t, u) EXCEPT
                            ![t] = Send(NewTask("cancel", u), "cancelled", "c_reply")]
       ELSE /\ user_states' = user_states
            /\ tasks' = [tasks EXCEPT
                            ![t] = Send(NewTask("cancel", u), "nothing_to_cancel", "c_reply")]

CancelReplyDone(t, ok) ==
    /\ tasks[t].pc = "c_reply"
    /\ UNCHANGED fmt
    /\ tasks' = [tasks EXCEPT ![t] = IF ok THEN Finish(Delivered(@))
                                          ELSE Unhandled(@)]
    /\ UNCHANGED <<user_states, received>>

\* ---------------------------------------------------------- handle_image
ImageError(task) == Send(task, "image_error", "i_error")

ImageEvent(t, u, img) ==
    /\ Free(t)
    /\ UNCHANGED fmt
    /\ tasks' = [tasks EXCEPT ![t] = [NewTask("image", u) EXCEPT
                                         !.image_data = img, !.pc = "i_get_file"]]
    /\ UNCHANGED <<user_states, received>>

ImageGetFileDone(t, ok) ==
    /\ tasks[t].pc = "i_get_file"
    /\ UNCHANGED fmt
    /\ tasks' = [tasks EXCEPT ![t] = IF ok THEN [@ EXCEPT !.pc = "i_download"]
                                          ELSE ImageError(@)]
    /\ UNCHANGED <<user_states, received>>

\* Variant: the entry is written before the download is known to have succeeded.
StoreBeforeDownload(us, u, img, ok) == PutImage(us, u, img)

\* The assignment of line 250 follows the two awaits inside the try: it is
\* reached only when both returned.
StoreAfterDownload(us, u, img, ok) == IF ok THEN PutImage(us, u, img) ELSE us

ImageDownloadDone(t, ok) ==
    /\ tasks[t].pc = "i_download"
    /\ UNCHANGED fmt
    /\ user_states' = StoreAfterDownload(user_states, tasks[t].user,
                                         tasks[t].image_data, ok)
    /\ IF ok
       THEN /\ tasks' = [NoteStore(tasks, t, tasks[t].user, tasks[t].image_data) EXCEPT
                            ![t] = Send([@ EXCEPT !.checked =
                                             user_states[tasks[t].user]],
                                        "image_received", "i_ack")]
            /\ received' = [received EXCEPT ![tasks[t].user] = tasks[t].image_data]
       ELSE /\ tasks' = [tasks EXCEPT ![t] = ImageError(@)]
            /\ UNCHANGED received

ImageAckDone(t, ok) ==
    /\ tasks[t].pc = "i_ack"
    /\ UNCHANGED fmt
    /\ tasks' = [tasks EXCEPT ![t] = IF ok THEN Finish(Delivered(@))
                                          ELSE ImageError(@)]
    /\ UNCHANGED <<user_states, received>>

ImageErrorDone(t, ok) ==
    /\ tasks[t].pc = "i_error"
    /\ UNCHANGED fmt
    /\ tasks' = [tasks EXCEPT ![t] = IF ok THEN Finish(Delivered(@))
                                          ELSE Unhandled(@)]
    /\ UNCHANGED <<user_states, received>>

\* ------------------------------------------------------- handle_question
QuestionEvent(t, u) ==
    /\ Free(t)
    /\ UNCHANGED fmt
    /\ tasks' = [tasks EXCEPT ![t] =
          IF ~HasPending(user_states, u)
          THEN Send(NewTask("question", u), "guidance", "q_guidance")
          ELSE Send([NewTask("question", u) EXCEPT !.checked = user_states[u]],
                    "processing", "q_processing")]
    /\ UNCHANGED <<user_states, received>>

QuestionGuidanceDone(t, ok) ==
    /\ tasks[t].pc = "q_guidance"
    /\ UNCHANGED fmt
    /\ tasks' = [tasks EXCEPT ![t] = IF ok THEN Finish(Delivered(@))
                                          ELSE Unhandled(@)]
    /\ UNCHANGED <<user_states, received>>

\* image_data = user_states[user_id]["image_data"], then the analysis call.
ReadImage(task, us) ==
    IF HasPending(us, task.user)
    THEN CallAnalyze(task, us[task.user])
    ELSE Except(task, "KeyError")

QuestionProcessingDone(t, ok) ==
    /\ tasks[t].pc = "q_processing"
    /\ UNCHANGED fmt
    /\ tasks' = [tasks EXCEPT ![t] = IF ok THEN ReadImage(Delivered(@), user_states)
                                          ELSE Except(@, "send")]
    /\ UNCHANGED <<user_states, received>>

\* Variant: the translation is requested before the English result is sent.
AfterAnalyzeTranslateFirst(task) == CallTranslate(task)

\* formatted_english is sent before anything else is done with the answer.
AfterAnalyze(task) == Send(task, "english", "q_english")

QuestionAnalyzeDone(t, ok) ==
    /\ tasks[t].pc = "q_analyze"
    /\ UNCHANGED fmt
    /\ tasks' = [tasks EXCEPT ![t] = IF ok THEN AfterAnalyze(@)
                                          ELSE Except(@, "analyze")]
    /\ UNCHANGED <<user_states, received>>

QuestionEnglishDone(t, ok) ==
    /\ tasks[t].pc = "q_english"
    /\ UNCHANGED fmt
    /\ tasks' = [tasks EXCEPT ![t] = IF ok THEN Send(Delivered(@), "translating", "q_edit1")
                                          ELSE Except(@, "send")]
    /\ UNCHANGED <<user_states, received>>

QuestionEdit1Done(t, ok) ==
    /\ tasks[t].pc = "q_edit1"
    /\ UNCHANGED fmt
    /\ tasks' = [tasks EXCEPT ![t] = IF ok THEN CallTranslate(Delivered(@))
                                          ELSE Except(@, "send")]
    /\ UNCHANGED <<user_states, received>>

QuestionTranslateDone(t, ok) ==
    /\ tasks[t].pc = "q_translate"
    /\ UNCHANGED fmt
    /\ tasks' = [tasks EXCEPT ![t] = IF ok THEN Send(@, "georgian", "q_georgian")
                                          ELSE Except(@, "translate")]
    /\ UNCHANGED <<user_states, received>>

\* del user_states[user_id] raises KeyError when the key is gone.
QuestionGeorgianDone(t, ok) ==
    /\ tasks[t].pc = "q_georgian"
    /\ UNCHANGED fmt
    /\ IF ok /\ HasPending(user_states, tasks[t].user)
       THEN /\ user_states' = ClearState(user_states, tasks[t].user)
            /\ tasks' = [tasks EXCEPT ![t] = Send(Delivered(@), "complete", "q_edit2")]
            /\ UNCHANGED received
       ELSE /\ tasks' = [tasks EXCEPT ![t] = IF ok THEN Except(Delivered(@), "KeyError")
                                                 ELSE Except(@, "send")]
            /\ UNCHANGED <<user_states, received>>

QuestionEdit2Done(t, ok) ==
    /\ tasks[t].pc = "q_edit2"
    /\ UNCHANGED fmt
    /\ tasks' = [tasks EXCEPT ![t] = IF ok THEN Finish(Delivered(@))
                                          ELSE Except(@, "send")]
    /\ UNCHANGED <<user_states, received>>

\* The notice is awaited first; the guarded del runs only if it returned.
QuestionErrorDone(t, ok) ==
    /\ tasks[t].pc = "q_error"
    /\ UNCHANGED fmt
    /\ IF ok
       THEN /\ user_states' = IF HasPending(user_states, tasks[t].user)
                              THEN ClearState(user_states, tasks[t].user)
                              ELSE user_states
            /\ tasks' = [tasks EXCEPT ![t] = Finish(Delivered(@))]
            /\ UNCHANGED received
       ELSE /\ tasks' = [tasks EXCEPT ![t] = Unhandled(@)]
            /\ UNCHANGED <<user_states, received>>

\* ------------------------------------------------------------------ Next
Next ==
    \/ \E t \in Slots, u \in Users : CancelEvent(t, u)
    \/ \E t \in Slots, ok \in BOOLEAN : CancelReplyDone(t, ok)
    \/ \E t \in Slots, u \in Users, img \in Images : ImageEvent(t, u, img)
    \/ \E t \in Slots, ok \in BOOLEAN : ImageGetFileDone(t, ok)
    \/ \E t \in Slots, ok \in BOOLEAN : ImageDownloadDone(t, ok)
    \/ \E t \in Slots, ok \in BOOLEAN : ImageAckDone(t, ok)
    \/ \E t \in Slots, ok \in BOOLEAN : ImageErrorDone(t, ok)
    \/ \E t \in Slots, u \in Users : QuestionEvent(t, u)
    \/ \E t \in Slots, ok \in BOOLEAN : QuestionGuidanceDone(t, ok)
    \/ \E t \in Slots, ok \in BOOLEAN : QuestionProcessingDone(t, ok)
    \/ \E t \in Slots, ok \in BOOLEAN : QuestionAnalyzeDone(t, ok)
    \/ \E t \in Slots, ok \in BOOLEAN : QuestionEnglishDone(t, ok)
    \/ \E t \in Slots, ok \in BOOLEAN : QuestionEdit1Done(t, ok)
    \/ \E t \in Slots, ok \in BOOLEAN : QuestionTranslateDone(t, ok)
    \/ \E t \in Slots, ok \in BOOLEAN : QuestionGeorgianDone(t, ok)
    \/ \E t \in Slots, ok \in BOOLEAN : QuestionEdit2Done(t, ok)
    \/ \E t \in Slots, ok \in BOOLEAN : QuestionErrorDone(t, ok)

Spec == Init /\ [][Next]_vars

\* ------------------------------------------------- steps, seen from outside
Range(s) == {s[i] : i \in 1..Len(s)}

\* Slot t starts handling an event of kind k in this step.
Started(t, k) == tasks[t].pc = "done" /\ tasks'[t].pc # "done" /\ tasks'[t].kind = k

\* The handler of kind k in slot t returns (or raises out of itself) in this step.
Returned(t, k) == tasks[t].kind = k /\ tasks[t].pc # "done" /\ tasks'[t].pc = "done"

\* The handler in slot t resumes at pc from and suspends at pc to.
Moved(t, from, to) == tasks[t].pc = from /\ tasks'[t].pc = to

Calls(task, api) == {i \in 1..Len(task.calls) : task.calls[i].api = api}

\* ---------------------------------------------------------------- claims

\* C1: a question text event received while the user has no pending image
\* emits the guidance message and nothing else, makes no call to the vision
\* or the translation client, and leaves the state store unchanged (the user
\* stays IDLE), up to and including the return of that handler.
C1_QuestionWithoutImage ==
    [][\A t \in Slots :
          /\ (Started(t, "question") /\ user_states[tasks'[t].user] = Absent)
                => /\ tasks'[t].out = <<"guidance">>
                   /\ tasks'[t].calls = <<>>
                   /\ user_states' = user_states
          /\ tasks'[t].pc = "q_guidance" => tasks'[t].calls = <<>>
          /\ tasks[t].pc = "q_guidance" /\ tasks'[t].pc # "q_guidance"
                => /\ tasks'[t].pc = "done"
                   /\ user_states' = user_states]_vars

C1_Witness ==
    \E t \in Slots :
        /\ tasks[t].pc = "q_guidance"
        /\ tasks[t].out = <<"guidance">>
        /\ user_states[tasks[t].user] = Absent

\* C2: an image is stored on receipt, and once a question handler whose
\* analysis and translation calls both succeeded has finished (no other
\* image of that user having been stored meanwhile), the user has no
\* pending image in the state store.
C2_ImageThenQuestion ==
    [][\A t \in Slots :
          /\ Moved(t, "i_download", "i_ack")
                => user_states'[tasks[t].user] = tasks[t].image_data
          /\ (/\ Returned(t, "question")
              /\ "georgian" \in Range(tasks[t].out)
              /\ tasks[t].during = Absent)
                => user_states'[tasks[t].user] = Absent]_vars

\* C3: when the vision reasoning call fails, no translation call is made for
\* that question, the error notice is sent, and the user's stored state is
\* cleared when the handler finishes.
C3_AnalysisFailure ==
    /\ [](\A t \in Slots :
            tasks[t].error = "analyze"
                => /\ Calls(tasks[t], "translate") = {}
                   /\ Last(tasks[t].out) = ErrorNotice)
    /\ [][\A t \in Slots :
            (Returned(t, "question") /\ tasks[t].error = "analyze")
                => user_states'[tasks[t].user] = Absent]_vars

\* C4: when the analysis call succeeds and only the translation call fails,
\* the English result has been delivered before the failure, the stored
\* state is cleared when the handler finishes, and the error notice is
\* specific to the translation step: it is not the notice sent for any
\* other failure.
C4_TranslationFailure ==
    /\ [](\A t \in Slots :
            tasks[t].error = "translate"
                => /\ "english" \in Range(tasks[t].delivered)
                   /\ \A s \in Slots :
                         tasks[s].error \in {"analyze", "send", "KeyError"}
                            => Last(tasks[s].out) # Last(tasks[t].out))
    /\ [][\A t \in Slots :
            (Returned(t, "question") /\ tasks[t].error = "translate")
                => user_states'[tasks[t].user] = Absent]_vars

\* C5: within one question handler the English result is emitted before the
\* translated result, and the translation call is issued only after the
\* analysis call returned and the English result was sent and delivered.
C5_EnglishBeforeTranslation ==
    \A t \in Slots :
        LET k == tasks[t] IN
        /\ \A i \in 1..Len(k.out) :
              k.out[i] = "georgian" => \E j \in 1..(i - 1) : k.out[j] = "english"
        /\ Calls(k, "translate") # {}
              => /\ \E i \in Calls(k, "analyze") : \A j \in Calls(k, "translate") : i < j
                 /\ "english" \in Range(k.delivered)

C5_Witness ==
    \E t \in Slots :
        /\ tasks[t].pc = "q_georgian"
        /\ tasks[t].out = <<"processing", "english", "translating", "georgian">>

\* C6: handle_image overwrites whatever image is pending with the new one
\* and leaves the user with a pending image, and the image bytes passed to
\* the analysis call are those of the image stored last for that user.
C6_SecondImageWins ==
    [][\A t \in Slots :
          /\ Moved(t, "i_download", "i_ack")
                => user_states'[tasks[t].user] = tasks[t].image_data
          /\ Moved(t, "q_processing", "q_analyze")
                => /\ Len(tasks'[t].calls) = 1
                   /\ tasks'[t].calls[1] =
                         [api |-> "analyze", image |-> received[tasks[t].user]]
                   /\ received[tasks[t].user] # Absent]_vars

\* Two images were stored, the second over the first, and the question that
\* followed is analysed with the second.
C6_Witness ==
    \E i, q \in Slots :
        /\ tasks[i].kind = "image" /\ tasks[i].pc = "i_ack"
        /\ tasks[i].checked \notin {Absent, tasks[i].image_data}
        /\ tasks[q].pc = "q_analyze" /\ tasks[q].user = tasks[i].user
        /\ tasks[q].calls = <<[api |-> "analyze", image |-> tasks[i].image_data]>>

\* C7: a cancel command leaves the user IDLE: stored state is removed and
\* the confirmation emitted, or, with none stored, the store is unchanged
\* and "nothing to cancel" is emitted; no other user's entry changes, and
\* the reply that follows leaves the store alone.
C7_Cancel ==
    [][\A t \in Slots :
          /\ Started(t, "cancel")
                => LET u == tasks'[t].user IN
                   /\ user_states'[u] = Absent
                   /\ \A v \in Users \ {u} : user_states'[v] = user_states[v]
                   /\ IF user_states[u] # Absent
                      THEN tasks'[t].out = <<"cancelled">>
                      ELSE tasks'[t].out = <<"nothing_to_cancel">>
          /\ Returned(t, "cancel") => user_states' = user_states]_vars

C7_Witness ==
    \E t \in Slots :
        /\ tasks[t].pc = "c_reply"
        /\ tasks[t].out = <<"cancelled">>
        /\ received[tasks[t].user] # Absent
        /\ user_states[tasks[t].user] = Absent

\* C8: an image stored for a user while a question of that user is in flight
\* is still that user's pending image when the in-flight question handler
\* finishes, unless the user cancelled in between.
C8_NoLostImage ==
    [][\A t \in Slots :
          (Returned(t, "question") /\ tasks[t].during # Absent)
              => user_states'[tasks[t].user] = tasks[t].during]_vars

\* C9: a question handler whose user cancelled while it was in flight raises
\* no error on the missing state, and unless a new image arrived meanwhile
\* the user's state is IDLE when it finishes.
C9_CancelInFlight ==
    /\ [](\A t \in Slots : tasks[t].cancelled => tasks[t].error # "KeyError")
    /\ [][\A t \in Slots :
            (Returned(t, "question") /\ tasks[t].cancelled /\ tasks[t].during = Absent)
                => user_states'[tasks[t].user] = Absent]_vars

\* C10: the image passed to the analysis call is the one that was pending
\* when the question event passed the pending-image check.
C10_SnapshotAtStart ==
    \A t \in Slots :
        \A i \in Calls(tasks[t], "analyze") : tasks[t].calls[i].image = tasks[t].checked

\* Slot t takes this step, on behalf of user Actor(t).
Acting(t) == tasks'[t].pc # tasks[t].pc

Actor(t) == IF tasks'[t].pc # "done" THEN tasks'[t].user ELSE tasks[t].user

\* C11: the per-user automata are independent: a step taken for one user
\* (an image, question or cancel event, or the completion or failure of an
\* await of one of that user's handlers) changes no other user's stored
\* state and nothing of another user's handlers, what they have emitted
\* included; a handler emits to the user it started for.
C11_Independence ==
    [][\A t \in Slots :
          Acting(t)
            => /\ \A v \in Users \ {Actor(t)} : user_states'[v] = user_states[v]
               /\ \A s \in Slots \ {t} :
                     tasks[s].user # Actor(t) => tasks'[s] = tasks[s]
               /\ tasks[t].pc # "done" => tasks'[t].user = tasks[t].user]_vars

\* One user's cancel has cleared that user's state while another user's
\* question is in flight with its image still stored.
C11_Witness ==
    \E c, q \in Slots :
        /\ tasks[c].pc = "c_reply" /\ tasks[c].out = <<"cancelled">>
        /\ tasks[q].pc = "q_analyze" /\ tasks[q].user # tasks[c].user
        /\ user_states[tasks[q].user] = tasks[q].image_data
        /\ user_states[tasks[c].user] = Absent

\* C12: every error raised while handling an image, question or cancel event
\* is caught inside the handler: no handler terminates with an exception.
C12_NoUnhandledException == \A t \in Slots : ~tasks[t].crashed

\* ------------------------------------------------------------- fairness
\* An await that has been issued eventually returns or raises, and the
\* event loop then resumes the coroutine.
Resume(t) ==
    \E ok \in BOOLEAN :
        \/ CancelReplyDone(t, ok)
        \/ ImageGetFileDone(t, ok)
        \/ ImageDownloadDone(t, ok)
        \/ ImageAckDone(t, ok)
        \/ ImageErrorDone(t, ok)
        \/ QuestionGuidanceDone(t, ok)
        \/ QuestionProcessingDone(t, ok)
        \/ QuestionAnalyzeDone(t, ok)
        \/ QuestionEnglishDone(t, ok)
        \/ QuestionEdit1Done(t, ok)
        \/ QuestionTranslateDone(t, ok)
        \/ QuestionGeorgianDone(t, ok)
        \/ QuestionEdit2Done(t, ok)
        \/ QuestionErrorDone(t, ok)

FairSpec == Spec /\ \A t \in Slots : WF_vars(Resume(t))

\* C16: every question handler that starts with a pending image eventually
\* terminates (each await returning or failing), by then it has emitted the
\* translated result or the error notice, and a handler that failed does
\* not leave the user waiting in AWAITING_QUESTION with the image it was
\* handling.
C16_QuestionTerminates ==
    /\ \A t \in Slots : (tasks[t].pc = "q_processing") ~> (tasks[t].pc = "done")
    /\ [][\A t \in Slots :
            (Returned(t, "question") /\ tasks[t].checked # Absent)
                => /\ {"georgian", ErrorNotice} \cap Range(tasks[t].out) # {}
                   /\ (tasks[t].error # "none" /\ tasks[t].during = Absent)
                         => user_states'[tasks[t].user] = Absent]_vars

\* C17: on a processing failure in the question handler the stored state is
\* cleared whether or not the error notice can be delivered: when the
\* except clause is left, by return or by the send raising, the user has no
\* stored state.
C17_ClearedWhateverTheNotice ==
    [][\A t \in Slots :
          Moved(t, "q_error", "done") => user_states'[tasks[t].user] = Absent]_vars

\* C18: the question handler emits its error notice only for a question
\* whose analysis call, translation call or a chat send failed, so not for
\* one whose English and translated results were both delivered and whose
\* sends all returned.
C18_NoticeOnlyOnFailure ==
    \A t \in Slots :
        ErrorNotice \in Range(tasks[t].out)
            => tasks[t].error \in {"analyze", "translate", "send"}

\* C19: handle_image writes the state store only once the download has
\* succeeded: when get_file or the download fails the store is left as it
\* was, a pending image included, and the image-error message is emitted;
\* no other step of the handler writes the store.
C19_StoreAfterDownload ==
    [][\A t \in Slots :
          /\ (Moved(t, "i_get_file", "i_error") \/ Moved(t, "i_download", "i_error"))
                => /\ user_states' = user_states
                   /\ tasks'[t].out = <<"image_error">>
          /\ (tasks'[t].kind = "image" /\ Acting(t) /\ ~Moved(t, "i_download", "i_ack"))
                => user_states' = user_states]_vars

\* A download failed while an earlier image of the user was pending, which
\* is still stored.
C19_Witness ==
    \E t \in Slots :
        /\ tasks[t].pc = "i_error" /\ tasks[t].out = <<"image_error">>
        /\ user_states[tasks[t].user] \notin {Absent, tasks[t].image_data}

\* ------------------------------------------------------ format_math_text
\* A text is a sequence of characters, each a one-character string; a
\* character outside ASCII is written by its code point ("U+2192" is the
\* arrow, "U+2081" the subscript one, "U+2022" the bullet), and so is the
\* backtick ("U+0060").

\* Variant: the rule that drops a backslash after a space is applied first.
replacementsSpaceRuleFirst ==
    <<
       [old |-> <<" ", "\\">>, new |-> <<" ">>],
       [old |-> <<"\\", "\\">>, new |-> <<"\\">>],
       [old |-> <<"\\", "o", "v", "e", "r", "r", "i", "g", "h", "t", "a", "r", "r", "o", "w">>, new |-> <<"U+2192">>],
       [old |-> <<"\\", "[">>, new |-> <<>>],
       [old |-> <<"\\", "]">>, new |-> <<>>],
       [old |-> <<"\\", "v", "e", "c">>, new |-> <<"U+2192">>],
       [old |-> <<"_", "1">>, new |-> <<"U+2081">>],
       [old |-> <<"_", "2">>, new |-> <<"U+2082">>],
       [old |-> <<"_", "3">>, new |-> <<"U+2083">>],
       [old |-> <<"_", "4">>, new |-> <<"U+2084">>],
       [old |-> <<"\\", "{">>, new |-> <<"{">>],
       [old |-> <<"\\", "}">>, new |-> <<"}">>],
       [old |-> <<"\\", "c", "d", "o", "t">>, new |-> <<"U+00B7">>],
       [old |-> <<"\\", "t", "i", "m", "e", "s">>, new |-> <<"U+00D7">>],
       [old |-> <<"\\", "r", "i", "g", "h", "t", "a", "r", "r", "o", "w">>, new |-> <<"U+2192">>],
       [old |-> <<"\\", "l", "e", "f", "t", "a", "r", "r", "o", "w">>, new |-> <<"U+2190">>],
       [old |-> <<"\\", "R", "i", "g", "h", "t", "a", "r", "r", "o", "w">>, new |-> <<"U+21D2">>],
       [old |-> <<"\\", "L", "e", "f", "t", "a", "r", "r", "o", "w">>, new |-> <<"U+21D0">>],
       [old |-> <<"\\", "a", "p", "p", "r", "o", "x">>, new |-> <<"U+2248">>],
       [old |-> <<"\\", "n", "e", "q">>, new |-> <<"U+2260">>],
       [old |-> <<"\\", "l", "e", "q">>, new |-> <<"U+2264">>],
       [old |-> <<"\\", "g", "e", "q">>, new |-> <<"U+2265">>],
       [old |-> <<"\\", "s", "q", "r", "t">>, new |-> <<"U+221A">>],
       [old |-> <<"\\", "i", "n", "f", "t", "y">>, new |-> <<"U+221E">>],
       [old |-> <<"\\", "p", "i">>, new |-> <<"U+03C0">>],
       [old |-> <<"\\", "(">>, new |-> <<"(">>],
       [old |-> <<"\\", ")">>, new |-> <<")">>]
    >>

\* The dict of lines 34-62, in insertion order, which is the order in which
\* the loop of lines 65-66 applies it.
replacements ==
    <<
       [old |-> <<"\\", "\\">>, new |-> <<"\\">>],
       [old |-> <<"\\", "o", "v", "e", "r", "r", "i", "g", "h", "t", "a", "r", "r", "o", "w">>, new |-> <<"U+2192">>],
       [old |-> <<"\\", "[">>, new |-> <<>>],
       [old |-> <<"\\", "]">>, new |-> <<>>],
       [old |-> <<"\\", "v", "e", "c">>, new |-> <<"U+2192">>],
       [old |-> <<"_", "1">>, new |-> <<"U+2081">>],
       [old |-> <<"_", "2">>, new |-> <<"U+2082">>],
       [old |-> <<"_", "3">>, new |-> <<"U+2083">>],
       [old |-> <<"_", "4">>, new |-> <<"U+2084">>],
       [old |-> <<"\\", "{">>, new |-> <<"{">>],
       [old |-> <<"\\", "}">>, new |-> <<"}">>],
       [old |-> <<"\\", "c", "d", "o", "t">>, new |-> <<"U+00B7">>],
       [old |-> <<"\\", "t", "i", "m", "e", "s">>, new |-> <<"U+00D7">>],
       [old |-> <<"\\", "r", "i", "g", "h", "t", "a", "r", "r", "o", "w">>, new |-> <<"U+2192">>],
       [old |-> <<"\\", "l", "e", "f", "t", "a", "r", "r", "o", "w">>, new |-> <<"U+2190">>],
       [old |-> <<"\\", "R", "i", "g", "h", "t", "a", "r", "r", "o", "w">>, new |-> <<"U+21D2">>],
       [old |-> <<"\\", "L", "e", "f", "t", "a", "r", "r", "o", "w">>, new |-> <<"U+21D0">>],
       [old |-> <<"\\", "a", "p", "p", "r", "o", "x">>, new |-> <<"U+2248">>],
       [old |-> <<"\\", "n", "e", "q">>, new |-> <<"U+2260">>],
       [old |-> <<"\\", "l", "e", "q">>, new |-> <<"U+2264">>],
       [old |-> <<"\\", "g", "e", "q">>, new |-> <<"U+2265">>],
       [old |-> <<"\\", "s", "q", "r", "t">>, new |-> <<"U+221A">>],
       [old |-> <<"\\", "i", "n", "f", "t", "y">>, new |-> <<"U+221E">>],
       [old |-> <<"\\", "p", "i">>, new |-> <<"U+03C0">>],
       [old |-> <<" ", "\\">>, new |-> <<" ">>],
       [old |-> <<"\\", "(">>, new |-> <<"(">>],
       [old |-> <<"\\", ")">>, new |-> <<")">>]
    >>

\* str.replace(old, new): every occurrence, left to right, not overlapping.
RECURSIVE Replace(_, _, _)
Replace(text, old, new) ==
    IF Len(text) < Len(old) THEN text
    ELSE IF SubSeq(text, 1, Len(old)) = old
         THEN new \o Replace(SubSeq(text, Len(old) + 1, Len(text)), old, new)
         ELSE <<Head(text)>> \o Replace(Tail(text), old, new)

\* for old, new in replacements.items(): text = text.replace(old, new)
RECURSIVE FirstPass(_, _)
FirstPass(text, i) ==
    IF i > Len(replacements) THEN text
    ELSE FirstPass(Replace(text, replacements[i].old, replacements[i].new), i + 1)

\* Lines 64-72: the table, then every remaining backslash, then M1 and M2.
Substitute(text) ==
    LET second == Replace(FirstPass(text, 1), <<"\\">>, <<>>)
    IN  Replace(Replace(second, <<"M", "1">>, <<"M", "U+2081">>),
                <<"M", "2">>, <<"M", "U+2082">>)

\* text.split('\n')
RECURSIVE Split(_)
Split(text) ==
    IF \A i \in 1..Len(text) : text[i] # "\n" THEN <<text>>
    ELSE LET i == CHOOSE k \in 1..Len(text) :
                     text[k] = "\n" /\ \A j \in 1..(k - 1) : text[j] # "\n"
         IN  <<SubSeq(text, 1, i - 1)>> \o Split(SubSeq(text, i + 1, Len(text)))

Whitespace == {" ", "\t", "\r"}

\* line.strip()
RECURSIVE Strip(_)
Strip(line) ==
    IF line = <<>> THEN line
    ELSE IF Head(line) \in Whitespace THEN Strip(Tail(line))
    ELSE IF line[Len(line)] \in Whitespace THEN Strip(SubSeq(line, 1, Len(line) - 1))
    ELSE line

StartsWith(line, prefix) ==
    Len(line) >= Len(prefix) /\ SubSeq(line, 1, Len(prefix)) = prefix

\* Variant: the hyphen is not among the markers.
MarkersWithoutHyphen == {<<"U+2022">>, <<"1", ".">>, <<"2", ".">>, <<"3", ".">>, <<"4", ".">>, <<"5", ".">>, <<"6", ".">>, <<"7", ".">>, <<"8", ".">>, <<"9", ".">>}

\* The tuple given to line.startswith on line 79.
Markers == {<<"U+2022">>, <<"-">>, <<"1", ".">>, <<"2", ".">>, <<"3", ".">>, <<"4", ".">>, <<"5", ".">>, <<"6", ".">>, <<"7", ".">>, <<"8", ".">>, <<"9", ".">>}

Fence == <<"U+0060", "U+0060", "U+0060">>

\* Lines 78-82, for one line.
FormatLine(line) ==
    LET l == Strip(line)
    IN  IF (\E i \in 1..Len(l) : l[i] = "=") /\ ~\E m \in Markers : StartsWith(l, m)
        THEN Fence \o l \o Fence
        ELSE l

\* '\n'.join(formatted_lines)
RECURSIVE Join(_)
Join(lines) ==
    IF Len(lines) = 1 THEN lines[1]
    ELSE lines[1] \o <<"\n">> \o Join(Tail(lines))

format_math_text(text) ==
    LET lines == Split(Substitute(text))
    IN  Join([i \in 1..Len(lines) |-> FormatLine(lines[i])])

\* ---- the texts format_math_text is applied to
MaxPieces == 3

\* Every key of the table, every prefix a list item can have, the characters
\* that make or break them, and the letters of one key without their backslash.
Pieces ==
    {replacements[i].old : i \in 1..Len(replacements)} \cup
    {<<"U+2022">>, <<"-">>, <<"1", ".">>, <<"2", ".">>, <<"3", ".">>, <<"4", ".">>,
     <<"5", ".">>, <<"6", ".">>, <<"7", ".">>, <<"8", ".">>, <<"9", ".">>} \cup
    {<<"\\">>, <<" ">>, <<"_">>, <<"1">>, <<"M">>, <<"=">>, <<"\n">>, <<"x">>,
     <<"v", "e", "c">>}

RECURSIVE Flatten(_)
Flatten(ps) == IF ps = <<>> THEN <<>> ELSE Head(ps) \o Flatten(Tail(ps))

Example == <<"\\", "v", "e", "c", "{", "M", "1", "}", " ", "=", " ", "\\", "v", "e", "c", "{", "M", "2", "}", " ", "+", " ", "2">>

ExampleOutput == <<"U+0060", "U+0060", "U+0060", "U+2192", "{", "M", "U+2081", "}", " ", "=", " ", "U+2192", "{", "M", "U+2082", "}", " ", "+", " ", "2", "U+0060", "U+0060", "U+0060">>

Inputs ==
    {Flatten(ps) : ps \in UNION {[1..n -> Pieces] : n \in 0..MaxPieces}} \cup {Example}

InitFmt ==
    /\ user_states = [u \in Users |-> Absent]
    /\ tasks = [t \in Slots |-> IdleTask]
    /\ received = [u \in Users |-> Absent]
    /\ fmt \in {[NoText EXCEPT !.stage = "input", !.text = x] : x \in Inputs}

FormatOnce ==
    /\ fmt.stage = "input"
    /\ fmt' = [fmt EXCEPT !.stage = "once", !.once = format_math_text(fmt.text)]
    /\ UNCHANGED <<user_states, tasks, received>>

FormatTwice ==
    /\ fmt.stage = "once"
    /\ fmt' = [fmt EXCEPT !.stage = "twice", !.twice = format_math_text(fmt.once)]
    /\ UNCHANGED <<user_states, tasks, received>>

NextFmt == FormatOnce \/ FormatTwice

SpecFmt == InitFmt /\ [][NextFmt]_vars

\* ------------------------------------------------ claims on the normalizer
Lines(text) == Split(Substitute(text))

HasEquals(line) == \E i \in 1..Len(line) : line[i] = "="

BeginsWithBullet(line) == Len(line) >= 1 /\ line[1] = "U+2022"

BeginsWithDigitDot(line) ==
    Len(line) >= 2 /\ line[1] \in {"1", "2", "3", "4", "5", "6", "7", "8", "9"}
                   /\ line[2] = "."

BeginsWithHyphen(line) == Len(line) >= 1 /\ line[1] = "-"

Wrapped(line) == <<"U+0060", "U+0060", "U+0060">> \o line \o <<"U+0060", "U+0060", "U+0060">>

\* C13 as stated: a line of the substituted text is output wrapped in the
\* delimiter pair exactly when it contains '=' and its trimmed content does
\* not begin with the bullet symbol or a digit-dot prefix 1. to 9.; every
\* other line is output trimmed and otherwise unchanged.
C13_FenceRuleAsStated ==
    fmt.stage = "once" =>
        LET lines == Lines(fmt.text)
            out == Split(fmt.once)
        IN  /\ Len(out) = Len(lines)
            /\ \A i \in 1..Len(lines) :
                 LET l == Strip(lines[i])
                 IN  out[i] = IF HasEquals(l) /\ ~BeginsWithBullet(l)
                                              /\ ~BeginsWithDigitDot(l)
                               THEN Wrapped(l) ELSE l

\* C13 (amended): a line of the substituted text is output wrapped in the
\* delimiter pair exactly when it contains '=' and its trimmed content does
\* not begin with the bullet symbol, a hyphen or a digit-dot prefix 1. to 9.;
\* every other line is output trimmed and otherwise unchanged.
C13_FenceRule ==
    fmt.stage = "once" =>
        LET lines == Lines(fmt.text)
            out == Split(fmt.once)
        IN  /\ Len(out) = Len(lines)
            /\ \A i \in 1..Len(lines) :
                 LET l == Strip(lines[i])
                 IN  out[i] = IF HasEquals(l) /\ ~BeginsWithBullet(l)
                                              /\ ~BeginsWithHyphen(l)
                                              /\ ~BeginsWithDigitDot(l)
                               THEN Wrapped(l) ELSE l

\* A text whose second line contains '=' after a hyphen has been normalized
\* and that line is output as it is.
C13_Witness ==
    /\ fmt.stage = "once"
    /\ Len(Lines(fmt.text)) = 2
    /\ HasEquals(Lines(fmt.text)[2])
    /\ BeginsWithHyphen(Strip(Lines(fmt.text)[2]))
    /\ Split(fmt.once)[2] = Strip(Lines(fmt.text)[2])

\* Number of places where word occurs in text.
Occurrences(text, word) ==
    Cardinality({i \in 1..(Len(text) - Len(word) + 1) :
                    SubSeq(text, i, i + Len(word) - 1) = word})

\* Number of places where word occurs in text with no backslash before it.
BareOccurrences(text, word) ==
    Cardinality({i \in 1..(Len(text) - Len(word) + 1) :
                    /\ SubSeq(text, i, i + Len(word) - 1) = word
                    /\ (i = 1 \/ text[i - 1] # "\\")})

Letters ==
    {"a", "b", "c", "d", "e", "f", "g", "h", "i", "j", "k", "l", "m", "n", "o",
     "p", "q", "r", "s", "t", "u", "v", "w", "x", "y", "z", "R", "L"}

\* The rows of the table whose key is a backslash and a name.
Named ==
    {i \in 1..Len(replacements) :
        /\ Len(replacements[i].old) >= 2
        /\ replacements[i].old[1] = "\\"
        /\ replacements[i].old[2] \in Letters}

\* C14: every named escape sequence occurring in the input is replaced by
\* its display glyph and never reduced to its bare letters, the output
\* contains no backslash, and the input \vec{M1} = \vec{M2} + 2 yields the
\* single wrapped line with the arrows and the subscripts.
C14_GlyphBeforeStrip ==
    fmt.stage = "once" =>
        /\ \A i \in 1..Len(fmt.once) : fmt.once[i] # "\\"
        /\ \A k \in Named :
             /\ Occurrences(fmt.once, replacements[k].new)
                    >= Occurrences(fmt.text, replacements[k].old)
             /\ Occurrences(fmt.once, Tail(replacements[k].old))
                    <= BareOccurrences(fmt.text, Tail(replacements[k].old))
        /\ (fmt.text = Example => fmt.once = ExampleOutput)

\* A named sequence standing after a space has been normalized to its glyph.
C14_Witness ==
    /\ fmt.stage = "once"
    /\ \E k \in Named : /\ fmt.text = <<"x", " ">> \o replacements[k].old
                        /\ fmt.once = <<"x", " ">> \o replacements[k].new

WithoutDelimiters(text) == SelectSeq(text, LAMBDA c : c # "U+0060")

\* C15: for a text containing no key of the table, the second application
\* substitutes nothing: apart from the delimiters its characters are those
\* of the first application's result.
C15_NoDoubleSubstitution ==
    (/\ fmt.stage = "twice"
     /\ \A i \in 1..Len(replacements) : Occurrences(fmt.text, replacements[i].old) = 0)
        => WithoutDelimiters(fmt.twice) = WithoutDelimiters(fmt.once)
====
